---- MODULE Spec2Model ----
(***************************************************************************)
(* Model of pixelstats/SysfsCollector.cpp: the collection loop             *)
(* (SysfsCollector::collect), one collection cycle (SysfsCollector::logAll)*)
(* and the per-source readers.  File contents are sequences of one-        *)
(* character strings, so that sscanf, std::replace and Trim are computed   *)
(* character by character, as the code computes them.                      *)
(***************************************************************************)
EXTENDS Integers, Sequences, FiniteSets, TLC

VARIABLES pc, step, pixelstats_, files, log, now, cycles, cycleStart,
          prevStart, prevEnd, armedAt, nextExpiry, interrupts, startFiles,
          acquired, prevAcquired

vars == <<pc, step, pixelstats_, files, log, now, cycles, cycleStart,
          prevStart, prevEnd, armedAt, nextExpiry, interrupts, startFiles,
          acquired, prevAcquired>>

(***************************************************************************)
(* Program constants.                                                      *)
(***************************************************************************)
kSecondsPerDay == 86400
kWarmupSeconds == 30
kImpedanceScale == 1000

kCycleCountBinsPath == "cycle_counts_bins"
kCodecPath == "codec_state"
kSlowioReadCntPath == "slowio_read_cnt"
kSlowioWriteCntPath == "slowio_write_cnt"
kSlowioUnmapCntPath == "slowio_unmap_cnt"
kSlowioSyncCntPath == "slowio_sync_cnt"
kImpedancePath == "resistance_left_right"

SlowIoPaths ==
  <<kSlowioReadCntPath, kSlowioWriteCntPath, kSlowioUnmapCntPath, kSlowioSyncCntPath>>
IoOperation == <<"READ", "WRITE", "UNMAP", "SYNC">>

Paths ==
  {kCycleCountBinsPath, kCodecPath, kImpedancePath}
    \cup {SlowIoPaths[k] : k \in 1..4}

(***************************************************************************)
(* Bounds of the model.                                                    *)
(***************************************************************************)
MaxCycles == 3
MaxOffNominal == 1
MaxInterrupts == 1
ShortRun == 2
LongRun == 180000
EarlyWake == 1

(***************************************************************************)
(* Characters and strings.                                                 *)
(***************************************************************************)
DigitChars == <<"0", "1", "2", "3", "4", "5", "6", "7", "8", "9">>
IsDigit(c) == \E i \in 1..10 : DigitChars[i] = c
DigitVal(c) == (CHOOSE i \in 1..10 : DigitChars[i] = c) - 1

\* The letters a..f of a hexadecimal digit, in both cases.
LowerHex == <<"a", "b", "c", "d", "e", "f">>
UpperHex == <<"A", "B", "C", "D", "E", "F">>
IsXDigit(c) == IsDigit(c) \/ \E i \in 1..6 : c \in {LowerHex[i], UpperHex[i]}
HexVal(c) ==
  IF IsDigit(c) THEN DigitVal(c)
  ELSE 9 + (CHOOSE i \in 1..6 : c \in {LowerHex[i], UpperHex[i]})

\* The vertical tab (0x0B) has no escape in a TLA+ string: this two-character
\* string stands for that one character.
VerticalTab == "\\v"

\* isspace in the "C" locale: space, \t, \n, \v, \f, \r.
IsSpace(c) == c \in {" ", "\t", "\n", "\r", "\f", VerticalTab}

\* First index >= i of s that holds no white space (Len(s)+1 if none).
SkipSpace(s, i) ==
  IF i > Len(s) THEN i
  ELSE CHOOSE j \in i..(Len(s) + 1) :
         /\ \A k \in i..(j - 1) : IsSpace(s[k])
         /\ j > Len(s) \/ ~IsSpace(s[j])

\* First index >= i of s that holds no digit (Len(s)+1 if none).
DigitsEnd(s, i) ==
  IF i > Len(s) THEN i
  ELSE CHOOSE j \in i..(Len(s) + 1) :
         /\ \A k \in i..(j - 1) : IsDigit(s[k])
         /\ j > Len(s) \/ ~IsDigit(s[j])

\* First index >= i of s that holds no hexadecimal digit.
XDigitsEnd(s, i) ==
  IF i > Len(s) THEN i
  ELSE CHOOSE j \in i..(Len(s) + 1) :
         /\ \A k \in i..(j - 1) : IsXDigit(s[k])
         /\ j > Len(s) \/ ~IsXDigit(s[j])

\* Index of the last character of s at or before j that is no white space
\* (0 if none).
LastNonSpace(s, j) ==
  CHOOSE k \in 0..j :
    /\ \A m \in (k + 1)..j : IsSpace(s[m])
    /\ k = 0 \/ ~IsSpace(s[k])

\* android::base::Trim: strips leading and trailing white space (isspace).
Trim(s) == SubSeq(s, SkipSpace(s, 1), LastNonSpace(s, Len(s)))

\* std::replace(begin, end, ' ', ','): every space character, one by one.
ReplaceSpaces(s) == [i \in 1..Len(s) |-> IF s[i] = " " THEN "," ELSE s[i]]

(***************************************************************************)
(* Natural numbers of any size, as the digits of a file can spell them: a  *)
(* sequence of limbs base 2^16, least significant first, no leading zero   *)
(* limb (zero is the empty sequence).                                      *)
(***************************************************************************)
kLimbBits == 16
kLimb == 2 ^ kLimbBits

\* a * m + c, for 0 < m <= 2^15 and 0 <= c < m (limbs i.. of a, c the carry).
RECURSIVE BigMulAddFrom(_, _, _, _)
BigMulAddFrom(a, i, m, c) ==
  IF i > Len(a) THEN (IF c = 0 THEN <<>> ELSE <<c>>)
  ELSE LET t == a[i] * m + c
       IN  <<t % kLimb>> \o BigMulAddFrom(a, i + 1, m, t \div kLimb)

BigMulAdd(a, m, c) == BigMulAddFrom(a, 1, m, c)

\* a * m, for 0 <= m <= 2^15.
BigMul(a, m) == IF m = 0 THEN <<>> ELSE BigMulAdd(a, m, 0)

\* a * 2^k.
BigShl(a, k) ==
  IF a = <<>> THEN <<>>
  ELSE [i \in 1..(k \div kLimbBits) |-> 0] \o BigMul(a, 2 ^ (k % kLimbBits))

\* a * 10^k, four decimal digits at a time.
RECURSIVE BigPow10(_, _)
BigPow10(a, k) ==
  IF k <= 0 \/ a = <<>> THEN a
  ELSE IF k >= 4 THEN BigPow10(BigMul(a, 10000), k - 4)
  ELSE BigMul(a, 10 ^ k)

\* Number of bits of a: 0 for zero, else n with 2^(n-1) <= a < 2^n.
BitLen(a) ==
  IF a = <<>> THEN 0
  ELSE kLimbBits * (Len(a) - 1)
         + (CHOOSE n \in 1..kLimbBits :
              2 ^ (n - 1) <= a[Len(a)] /\ a[Len(a)] < 2 ^ n)

\* -1, 0 or 1 as a < b, a = b or a > b.
BigCmp(a, b) ==
  IF Len(a) < Len(b) THEN -1
  ELSE IF Len(a) > Len(b) THEN 1
  ELSE IF a = b THEN 0
  ELSE LET i == CHOOSE i \in 1..Len(a) :
                  a[i] # b[i] /\ \A k \in (i + 1)..Len(a) : a[k] = b[k]
       IN  IF a[i] < b[i] THEN -1 ELSE 1

\* a without its leading zero limbs.
BigStrip(a) ==
  LET n == CHOOSE n \in 0..Len(a) :
             /\ \A k \in (n + 1)..Len(a) : a[k] = 0
             /\ n = 0 \/ a[n] # 0
  IN  SubSeq(a, 1, n)

\* a - b, for a >= b.
RECURSIVE BigSubFrom(_, _, _, _)
BigSubFrom(a, b, i, borrow) ==
  IF i > Len(a) THEN <<>>
  ELSE LET t == a[i] - (IF i <= Len(b) THEN b[i] ELSE 0) - borrow
       IN  <<IF t < 0 THEN t + kLimb ELSE t>>
             \o BigSubFrom(a, b, i + 1, IF t < 0 THEN 1 ELSE 0)

BigSub(a, b) == BigStrip(BigSubFrom(a, b, 1, 0))

\* The number m, 0 <= m < 2^31.
BigOfInt(m) == BigStrip(<<m % kLimb, m \div kLimb>>)

\* Value of the digits s[i..j-1] (decimal, or hexadecimal for base 16), for
\* a value below 2^31.
RECURSIVE SmallValue(_, _, _, _)
SmallValue(s, i, j, base) ==
  IF j <= i THEN 0
  ELSE SmallValue(s, i, j - 1, base) * base + HexVal(s[j - 1])

\* Value of the digits s[i..j-1], three digits at a time.
RECURSIVE DigitsValue(_, _, _, _)
DigitsValue(s, i, j, base) ==
  IF j <= i THEN <<>>
  ELSE LET k == IF j - i > 3 THEN j - 3 ELSE i
       IN  BigMulAdd(DigitsValue(s, i, k, base), base ^ (j - k),
                     SmallValue(s, k, j, base))

(***************************************************************************)
(* sscanf "%d" into an int32_t.                                            *)
(***************************************************************************)
Int32Max == 2147483647
Int32Min == -Int32Max - 1

\* The int32_t that holds the low 32 bits hi * 2^16 + lo (two's complement).
Int32OfBits(hi, lo) ==
  IF hi >= kLimb \div 2 THEN (hi - kLimb) * kLimb + lo ELSE hi * kLimb + lo

\* What "%d" stores for a sign and a run of digits of value a.  The C library
\* converts the digits with strtol, which gives LONG_MAX or LONG_MIN for a
\* value out of the (64-bit) long, and stores the long in the int: its low
\* 32 bits.  (For a value out of int the C standard leaves the result
\* undefined; glibc and bionic both store it this way.)
StoredInt(neg, a) ==
  LET lo == IF Len(a) >= 1 THEN a[1] ELSE 0
      hi == IF Len(a) >= 2 THEN a[2] ELSE 0
      saturated == Len(a) > 4 \/ (Len(a) = 4 /\ a[4] >= kLimb \div 2)
  IN  IF saturated THEN (IF neg THEN 0 ELSE -1)
      ELSE IF ~neg THEN Int32OfBits(hi, lo)
      ELSE IF lo = 0 THEN Int32OfBits((kLimb - hi) % kLimb, 0)
      ELSE Int32OfBits(kLimb - 1 - hi, kLimb - lo)

\* sscanf(s, "%d", &v): white space is skipped, then an optional sign and at
\* least one digit are converted; what follows the digits is left unread.
\* n is sscanf's return value: 1 converted, 0 matching failure, -1 end of input.
ScanInt(s) ==
  LET i == SkipSpace(s, 1)
      signed == i <= Len(s) /\ s[i] \in {"+", "-"}
      d == IF signed THEN i + 1 ELSE i
      e == DigitsEnd(s, d)
  IN  IF i > Len(s) THEN [n |-> -1, val |-> 0]
      ELSE IF e = d THEN [n |-> 0, val |-> 0]
      ELSE [n |-> 1,
            val |-> StoredInt(signed /\ s[i] = "-", DigitsValue(s, d, e, 10))]

(***************************************************************************)
(* sscanf "%g" into a float, and the float scaled to an int32_t.           *)
(***************************************************************************)
\* A float: m * 2^e with 2^23 <= m < 2^24 ("finite"); a float of magnitude
\* below 2^-20, zero included ("small"); one of magnitude 2^22 or more,
\* infinity included ("large"); or not a number ("nan").
Float(kind, neg, m, e) == [kind |-> kind, neg |-> neg, m |-> m, e |-> e]

\* num / den times 2^k, as a quotient: times 2^e it is num / den again.
Scaled(num, den, k) ==
  [num |-> BigShl(num, IF k > 0 THEN k ELSE 0),
   den |-> BigShl(den, IF k < 0 THEN 0 - k ELSE 0),
   e |-> 0 - k]

\* The k that brings num / den * 2^k to 2^23 <= . < 2^24, from the k0 that
\* the numbers of bits give: num / den * 2^k0 lies from 2^22 to 2^24.
ShiftFor(num, den, k0) ==
  IF BigCmp(BigShl(num, IF k0 > 0 THEN k0 ELSE 0),
            BigShl(den, IF k0 < 0 THEN 23 - k0 ELSE 23)) < 0
    THEN k0 + 1
    ELSE k0

\* num / den brought to 2^23 <= num / den < 2^24 by a power of two.
Normalize(num, den) ==
  Scaled(num, den, ShiftFor(num, den, 23 + BitLen(den) - BitLen(num)))

\* Quotient and remainder of num by den, for a quotient below 16^k: one
\* hexadecimal digit at a time, most significant first (t is den * 16^(k-1),
\* d the digit).
BigDivJoin(d, k, rest) == [q |-> d * 16 ^ (k - 1) + rest.q, r |-> rest.r]

\* The digit d + x with 0 <= x < 2 * b for which (d + x) * t <= num <
\* (d + x + 1) * t: one bit at a time, b the value of the next bit.
RECURSIVE BigDivBits(_, _, _, _)
BigDivBits(num, t, d, b) ==
  IF b = 0 THEN d
  ELSE IF BigCmp(num, BigMul(t, d + b)) >= 0 THEN BigDivBits(num, t, d + b, b \div 2)
  ELSE BigDivBits(num, t, d, b \div 2)

RECURSIVE BigDiv(_, _, _)
BigDivDigit(num, den, k, t, d) ==
  BigDivJoin(d, k, BigDiv(BigSub(num, BigMul(t, d)), den, k - 1))

BigDivBy(num, den, k, t) == BigDivDigit(num, den, k, t, BigDivBits(num, t, 0, 8))

BigDiv(num, den, k) ==
  IF k = 0 THEN [q |-> 0, r |-> num]
  ELSE BigDivBy(num, den, k, BigShl(den, 4 * (k - 1)))

\* The float nearest to a quotient q + r / den scaled by 2^e, 2^23 <= q <
\* 2^24: c compares the remainder with one half (a tie goes to the even
\* mantissa).
Rounded(e, q, c) ==
  IF c < 0 \/ (c = 0 /\ q % 2 = 0) THEN [m |-> q, e |-> e]
  ELSE IF q + 1 = 2^24 THEN [m |-> 2^23, e |-> e + 1]
  ELSE [m |-> q + 1, e |-> e]

RoundHalfEven(z, d) == Rounded(z.e, d.q, BigCmp(BigMul(d.r, 2), z.den))

RoundQuotient(z) == RoundHalfEven(z, BigDiv(z.num, z.den, 6))

\* The float nearest to num / den, for a quotient in the range of the normal
\* floats: m * 2^e.
RoundToFloat(num, den) == RoundQuotient(Normalize(num, den))

\* Number of leading "0" characters of s.
LeadingZeros(s) ==
  CHOOSE n \in 0..Len(s) :
    /\ \A k \in 1..n : s[k] = "0"
    /\ n = Len(s) \/ s[n + 1] # "0"

\* a * 2^k in hexadecimal, a * 10^k in decimal.
ScaledUp(a, hex, k) == IF hex THEN BigShl(a, k) ELSE BigPow10(a, k)

RoundedFloat(neg, r) == Float("finite", neg, r.m, r.e)

\* strtof of a mantissa (the digits md, in base 10 or 16, nd of them from
\* the first that is not 0) times 10^p or 2^p.  The float is computed
\* exactly where its product by 1000 lies within int32_t and is not zero;
\* outside, its range is all that matters.
FloatInRange(neg, md, hex, p, nd) ==
  IF nd = 0 THEN Float("small", neg, 0, 0)
  ELSE IF hex /\ 4 * nd + p <= -20 THEN Float("small", neg, 0, 0)
  ELSE IF hex /\ 4 * (nd - 1) + p >= 22 THEN Float("large", neg, 0, 0)
  ELSE IF ~hex /\ nd + p <= -7 THEN Float("small", neg, 0, 0)
  ELSE IF ~hex /\ nd - 1 + p >= 7 THEN Float("large", neg, 0, 0)
  ELSE RoundedFloat(neg,
         RoundToFloat(
           ScaledUp(DigitsValue(md, 1, Len(md) + 1, IF hex THEN 16 ELSE 10),
                    hex, IF p > 0 THEN p ELSE 0),
           ScaledUp(<<1>>, hex, IF p < 0 THEN 0 - p ELSE 0)))

FloatOf(neg, md, hex, p) ==
  FloatInRange(neg, md, hex, p, Len(md) - LeadingZeros(md))

\* Value of the exponent digits s[i..j-1] (k is the first that is not 0),
\* kept at kExponentCap from there on: files are shorter than that many
\* characters, so that an exponent of the cap or more puts every mantissa
\* but zero out of the floats' range.
kExponentCap == 1000000
CappedValue(s, k, j) == IF j - k > 6 THEN kExponentCap ELSE SmallValue(s, k, j, 10)
ExponentValue(s, i, j) == CappedValue(s, i + LeadingZeros(SubSeq(s, i, j - 1)), j)

LowerChars ==
  <<"a", "b", "c", "d", "e", "f", "g", "h", "i", "j", "k", "l", "m",
    "n", "o", "p", "q", "r", "s", "t", "u", "v", "w", "x", "y", "z">>
UpperChars ==
  <<"A", "B", "C", "D", "E", "F", "G", "H", "I", "J", "K", "L", "M",
    "N", "O", "P", "Q", "R", "S", "T", "U", "V", "W", "X", "Y", "Z">>
ToLower(c) ==
  IF \E i \in 1..26 : UpperChars[i] = c
    THEN LowerChars[CHOOSE i \in 1..26 : UpperChars[i] = c]
    ELSE c

\* The word w (lower case) is at s[i..], in either case.
MatchesAt(s, i, w) ==
  /\ i + Len(w) - 1 <= Len(s)
  /\ \A k \in 1..Len(w) : ToLower(s[i + k - 1]) = w[k]

(***************************************************************************)
(* One "%g" conversion of sscanf starting at index i, as the C library     *)
(* makes it: white space is skipped and an optional sign read; then "nan", *)
(* "inf" or "infinity" (in either case), or digits with at most one '.',   *)
(* in hexadecimal after "0x", and - once a digit was read - an exponent    *)
(* ('e', or 'p' in hexadecimal, an optional sign, digits).  The characters *)
(* read this way are converted by strtof, which takes an exponent only if  *)
(* it has a digit.  The result: n is 1 for a conversion, 0 for a matching  *)
(* failure, -1 at the end of the input; next is the index of the first     *)
(* unread character.  One operator per part of the input; s is the input,  *)
(* a the index after the white space.                                      *)
(***************************************************************************)
NoFloat(n, next) == [n |-> n, val |-> Float("small", FALSE, 0, 0), next |-> next]
GotFloat(val, next) == [n |-> 1, val |-> val, next |-> next]

\* The number is read up to end: mantissa digits md, fd of them after the
\* '.', and the exponent exp.
ScanFloatValue(neg, hex, md, fd, exp, end) ==
  GotFloat(FloatOf(neg, md, hex, IF hex THEN exp - 4 * fd ELSE exp - fd), end)

\* The digits of the exponent, from index y.
ScanFloatExponentDigits(s, neg, hex, md, fd, eneg, y) ==
  ScanFloatValue(neg, hex, md, fd,
                 IF eneg THEN 0 - ExponentValue(s, y, DigitsEnd(s, y))
                 ELSE ExponentValue(s, y, DigitsEnd(s, y)),
                 DigitsEnd(s, y))

\* The sign of the exponent, at index x if there is one.
ScanFloatExponentSign(s, neg, hex, md, fd, x) ==
  IF x <= Len(s) /\ s[x] \in {"+", "-"}
    THEN ScanFloatExponentDigits(s, neg, hex, md, fd, s[x] = "-", x + 1)
    ELSE ScanFloatExponentDigits(s, neg, hex, md, fd, FALSE, x)

\* The mantissa is s[d..g-1], its digits are md and those from f on follow
\* the '.': an exponent follows a mantissa that has a digit.
ScanFloatExponent(s, a, neg, hex, d, f, g, md) ==
  IF md = <<>>
    THEN IF hex /\ g # d THEN GotFloat(Float("small", neg, 0, 0), g)
         ELSE NoFloat(0, a)
  ELSE IF g <= Len(s) /\ ToLower(s[g]) = (IF hex THEN "p" ELSE "e")
    THEN ScanFloatExponentSign(s, neg, hex, md, g - f, g + 1)
  ELSE ScanFloatValue(neg, hex, md, g - f, 0, g)

\* End of the run of digits of s from index i.
DigitRun(s, hex, i) == IF hex THEN XDigitsEnd(s, i) ELSE DigitsEnd(s, i)

\* The digits s[d..c-1] are read: a '.' and more digits can follow.
ScanFloatFraction(s, a, neg, hex, d, c) ==
  IF c <= Len(s) /\ s[c] = "."
    THEN ScanFloatExponent(s, a, neg, hex, d, c + 1, DigitRun(s, hex, c + 1),
                           SubSeq(s, d, c - 1)
                             \o SubSeq(s, c + 1, DigitRun(s, hex, c + 1) - 1))
    ELSE ScanFloatExponent(s, a, neg, hex, d, c, c, SubSeq(s, d, c - 1))

\* The digits start at index d.
ScanFloatDigits(s, a, neg, hex, d) ==
  ScanFloatFraction(s, a, neg, hex, d, DigitRun(s, hex, d))

\* "0x" or "0X" at index b.
HexPrefix(s, b) == b < Len(s) /\ s[b] = "0" /\ ToLower(s[b + 1]) = "x"

\* "inf" or "infinity" at index b.
ScanFloatInfinity(s, a, neg, b) ==
  IF ~MatchesAt(s, b, <<"i", "n", "f">>) THEN NoFloat(0, a)
  ELSE IF b + 3 > Len(s) \/ ToLower(s[b + 3]) # "i"
    THEN GotFloat(Float("large", neg, 0, 0), b + 3)
  ELSE IF MatchesAt(s, b, <<"i", "n", "f", "i", "n", "i", "t", "y">>)
    THEN GotFloat(Float("large", neg, 0, 0), b + 8)
  ELSE NoFloat(0, a)

\* What follows the sign, from index b.
ScanFloatUnsigned(s, a, neg, b) ==
  IF b > Len(s) THEN NoFloat(0, a)
  ELSE IF ToLower(s[b]) = "n"
    THEN IF MatchesAt(s, b, <<"n", "a", "n">>)
           THEN GotFloat(Float("nan", neg, 0, 0), b + 3)
           ELSE NoFloat(0, a)
  ELSE IF ToLower(s[b]) = "i" THEN ScanFloatInfinity(s, a, neg, b)
  ELSE ScanFloatDigits(s, a, neg, HexPrefix(s, b),
                       IF HexPrefix(s, b) THEN b + 2 ELSE b)

\* The sign, at index a if there is one.
ScanFloatSigned(s, a) ==
  IF a > Len(s) THEN NoFloat(-1, a)
  ELSE ScanFloatUnsigned(s, a, s[a] = "-", IF s[a] \in {"+", "-"} THEN a + 1 ELSE a)

ScanFloat(s, i) == ScanFloatSigned(s, SkipSpace(s, i))

(***************************************************************************)
(* The values the int32_t parameter can take when `v * 1000` is passed for *)
(* it: the float product (the exact product rounded to the nearest float), *)
(* truncated toward zero.  For a product out of int32_t, or not a number,  *)
(* the conversion is undefined: the hardware gives INT32_MIN (x86), or the *)
(* nearest bound of int32_t and 0 for a NaN (ARM).                         *)
(***************************************************************************)
\* The float p.m * 2^p.e times 2^e.
TimesPowerOfTwo(p, e) == [m |-> p.m, e |-> p.e + e]

\* The float product v * 1000, for a finite v.
TimesScale(v) ==
  TimesPowerOfTwo(RoundToFloat(BigMulAdd(BigOfInt(v.m), kImpedanceScale, 0), <<1>>),
                  v.e)

\* The integral part of p.m * 2^p.e, below 2^31.
Truncated(p) ==
  IF p.e >= 0 THEN p.m * 2^p.e
  ELSE IF p.e <= -24 THEN 0
  ELSE p.m \div 2^(0 - p.e)

\* The float p, with the sign, converted to int32_t.
Int32OfFloat(neg, p) ==
  IF p.e < 8 THEN {IF neg THEN 0 - Truncated(p) ELSE Truncated(p)}
  ELSE IF neg THEN {Int32Min}
  ELSE {Int32Min, Int32Max}

MilliOhms(v) ==
  CASE v.kind = "small" -> {0}
    [] v.kind = "nan" -> {Int32Min, 0}
    [] v.kind = "finite" -> Int32OfFloat(v.neg, TimesScale(v))
    [] OTHER -> IF v.neg THEN {Int32Min} ELSE {Int32Min, Int32Max}

\* sscanf(s, "%g<sep>%g", &left, &right) for a separator of seps: it must
\* be the character that follows the first number, with no white space
\* skipped.  n is the number of conversions made (-1 at end of input before
\* the first); left and right hold a value only as far as n says.
ScanSecond(left, r) ==
  IF r.n # 1 THEN [n |-> 1, left |-> left, right |-> left]
  ELSE [n |-> 2, left |-> left, right |-> r.val]

ScanSeparator(s, seps, l) ==
  IF l.n # 1 THEN [n |-> l.n, left |-> l.val, right |-> l.val]
  ELSE IF l.next > Len(s) \/ s[l.next] \notin seps
    THEN [n |-> 1, left |-> l.val, right |-> l.val]
  ELSE ScanSecond(l.val, ScanFloat(s, l.next + 1))

ScanPair(s, seps) == ScanSeparator(s, seps, ScanFloat(s, 1))

\* Mutant of ScanImpedance: a space is taken for the separator as well.
ScanImpedanceAnySeparator(s) == ScanPair(s, {",", " "})

\* sscanf(s, "%g,%g", &left, &right) (the code reads left and right only
\* when n is 2).
ScanImpedance(s) == ScanPair(s, {","})

(***************************************************************************)
(* Files.  A file exists or not, is readable or not, and holds text.  A     *)
(* write of it succeeds ("ok"), fails when the file is opened ("open") or  *)
(* fails when the text is written to the opened file ("write"); the file   *)
(* can be removed from its directory or not.                               *)
(***************************************************************************)
File(r, w, d) ==
  [exists |-> TRUE, readable |-> r, write |-> w, removable |-> TRUE, data |-> d]

\* A file in a directory that lets no file be removed.
Pinned(file) == [file EXCEPT !.removable = FALSE]

\* What is left of a file that was removed.
Gone(file) == [file EXCEPT !.exists = FALSE, !.data = <<>>]

\* android::base::ReadFileToString(path, &contents): contents is cleared
\* first, and stays empty when the file cannot be opened.
ReadFileToString(f, path) ==
  LET ok == f[path].exists /\ f[path].readable
  IN  [ok |-> ok, data |-> IF ok THEN f[path].data ELSE <<>>]

\* android::base::WriteStringToFile(text, path, true): the file is opened
\* with O_WRONLY | O_CREAT | O_TRUNC and the text written to it.  When the
\* open fails the file is as it was; when the write fails the truncated
\* file is unlinked (the result of unlink is not looked at).
WriteStringToFile(f, text, path) ==
  [ok |-> f[path].write = "ok",
   files |-> CASE f[path].write = "ok" -> [f EXCEPT ![path].data = text]
               [] f[path].write = "open" -> f
               [] f[path].write = "write" /\ f[path].removable ->
                    [f EXCEPT ![path] = Gone(f[path])]
               [] OTHER -> [f EXCEPT ![path].data = <<>>]]

(***************************************************************************)
(* Events of a cycle, in the order the code produces them: file reads,     *)
(* calls on the IPixelStats handle, file writes.                           *)
(***************************************************************************)
Ev(kind, path, val) == [ev |-> kind, src |-> path, val |-> val]

ReportKinds ==
  {"reportChargeCycles", "reportHardwareFailed", "reportSlowIo",
   "reportSpeakerImpedance"}
ReadKinds == {"read", "readFailed"}
WriteKinds == {"write", "writeFailed"}

(***************************************************************************)
(* The source readers.  Each gives the events the call produces, in order, *)
(* and the files after it.                                                 *)
(***************************************************************************)
logBatteryChargeCycles(f) ==
  LET r == ReadFileToString(f, kCycleCountBinsPath)
  IN  IF ~r.ok
        THEN [log |-> <<Ev("readFailed", kCycleCountBinsPath, <<>>)>>, files |-> f]
        ELSE [log |-> <<Ev("read", kCycleCountBinsPath, <<>>),
                        Ev("reportChargeCycles", kCycleCountBinsPath,
                           Trim(ReplaceSpaces(r.data)))>>,
              files |-> f]

\* Mutant of logCodecFailed: the content is trimmed before it is compared.
logCodecFailedTrimmed(f) ==
  LET r == ReadFileToString(f, kCodecPath)
  IN  IF ~r.ok
        THEN [log |-> <<Ev("readFailed", kCodecPath, <<>>)>>, files |-> f]
        ELSE IF Trim(r.data) = <<"0">>
        THEN [log |-> <<Ev("read", kCodecPath, <<>>)>>, files |-> f]
        ELSE [log |-> <<Ev("read", kCodecPath, <<>>),
                        Ev("reportHardwareFailed", kCodecPath,
                           <<"CODEC", 0, "COMPLETE">>)>>,
              files |-> f]

logCodecFailed(f) ==
  LET r == ReadFileToString(f, kCodecPath)
  IN  IF ~r.ok
        THEN [log |-> <<Ev("readFailed", kCodecPath, <<>>)>>, files |-> f]
        ELSE IF r.data = <<"0">>
        THEN [log |-> <<Ev("read", kCodecPath, <<>>)>>, files |-> f]
        ELSE [log |-> <<Ev("read", kCodecPath, <<>>),
                        Ev("reportHardwareFailed", kCodecPath,
                           <<"CODEC", 0, "COMPLETE">>)>>,
              files |-> f]

\* Mutant of reportSlowIoFromFile: a failed write of "0" is tried once more.
reportSlowIoFromFileRetry(f, path, operation) ==
  LET r == ReadFileToString(f, path)
      p == ScanInt(r.data)
      w == WriteStringToFile(f, <<"0">>, path)
      report == IF p.n = 1 /\ p.val > 0
                  THEN <<Ev("reportSlowIo", path, <<operation, p.val>>)>>
                  ELSE <<>>
      clear == IF w.ok
                 THEN <<Ev("write", path, <<"0">>)>>
                 ELSE <<Ev("writeFailed", path, <<"0">>),
                        Ev("writeFailed", path, <<"0">>)>>
  IN  IF ~r.ok
        THEN [log |-> <<Ev("readFailed", path, <<>>)>>, files |-> f]
        ELSE [log |-> <<Ev("read", path, <<>>)>> \o report \o clear,
              files |-> w.files]

reportSlowIoFromFile(f, path, operation) ==
  LET r == ReadFileToString(f, path)
      p == ScanInt(r.data)
      w == WriteStringToFile(f, <<"0">>, path)
      report == IF p.n = 1 /\ p.val > 0
                  THEN <<Ev("reportSlowIo", path, <<operation, p.val>>)>>
                  ELSE <<>>
      clear == <<Ev(IF w.ok THEN "write" ELSE "writeFailed", path, <<"0">>)>>
  IN  IF ~r.ok
        THEN [log |-> <<Ev("readFailed", path, <<>>)>>, files |-> f]
        ELSE [log |-> <<Ev("read", path, <<>>)>> \o report \o clear,
              files |-> w.files]

\* The two reports of a pair of values, for every value the conversions of
\* the products to int32_t can give.
ImpedanceReports(p) ==
  {<<Ev("reportSpeakerImpedance", kImpedancePath, <<0, l>>),
     Ev("reportSpeakerImpedance", kImpedancePath, <<1, r>>)>> :
     l \in MilliOhms(p.left), r \in MilliOhms(p.right)}

\* Mutant of logSpeakerImpedance: the file is cleared after it was read, as
\* the slow-I/O counters are.
logSpeakerImpedanceClears(f) ==
  LET r == ReadFileToString(f, kImpedancePath)
      p == ScanImpedance(r.data)
      w == WriteStringToFile(f, <<"0">>, kImpedancePath)
      reports == IF p.n # 2 THEN {<<>>} ELSE ImpedanceReports(p)
  IN  IF ~r.ok
        THEN {[log |-> <<Ev("readFailed", kImpedancePath, <<>>)>>, files |-> f]}
        ELSE {[log |-> <<Ev("read", kImpedancePath, <<>>)>> \o rs
                         \o <<Ev(IF w.ok THEN "write" ELSE "writeFailed",
                                 kImpedancePath, <<"0">>)>>,
               files |-> w.files] : rs \in reports}

\* logSpeakerImpedance: the set of its outcomes (one, unless a product is
\* out of int32_t).
logSpeakerImpedance(f) ==
  LET r == ReadFileToString(f, kImpedancePath)
      p == ScanImpedance(r.data)
  IN  IF ~r.ok
        THEN {[log |-> <<Ev("readFailed", kImpedancePath, <<>>)>>, files |-> f]}
        ELSE IF p.n # 2
        THEN {[log |-> <<Ev("read", kImpedancePath, <<>>)>>, files |-> f]}
        ELSE {[log |-> <<Ev("read", kImpedancePath, <<>>)>> \o rs, files |-> f] :
                rs \in ImpedanceReports(p)}

(***************************************************************************)
(* logAll, one step per call it makes.                                     *)
(***************************************************************************)
\* Where collect() continues when logAll returns: line 163 is followed by
\* timerfd_settime, line 189 by the next read of the timer.
AfterLogAll == IF armedAt < 0 THEN "settime" ELSE "read"

\* logAll returns after d seconds of processing; collect goes on to arm the
\* timer or to wait for it (no read of the timer has been interrupted yet).
LogAllReturns(d) ==
  /\ pc' = AfterLogAll
  /\ step' = "idle"
  /\ now' = now + d
  /\ prevEnd' = now + d
  /\ interrupts' = 0

\* Mutant of TryGetService: logAll goes on with a null handle.
TryGetServiceNoReturn ==
  /\ pc = "logAll" /\ step = "tryGetService"
  /\ \E ok \in BOOLEAN :
       /\ pixelstats_' = IF ok THEN "service" ELSE "null"
       /\ acquired' = IF ok THEN "yes" ELSE "no"
  /\ step' = "logBatteryChargeCycles"
  /\ UNCHANGED <<pc, now, prevEnd, files, log, cycles, cycleStart, prevStart,
                 armedAt, nextExpiry, interrupts, startFiles,
                 prevAcquired>>

\* Mutant of TryGetService: a null handle ends collect.
TryGetServiceFatal ==
  /\ pc = "logAll" /\ step = "tryGetService"
  /\ \E ok \in BOOLEAN :
       IF ok
         THEN /\ pixelstats_' = "service"
              /\ acquired' = "yes"
              /\ step' = "logBatteryChargeCycles"
              /\ UNCHANGED <<pc, now, prevEnd, interrupts>>
         ELSE /\ pixelstats_' = "null"
              /\ acquired' = "no"
              /\ pc' = "exited"
              /\ step' = "idle"
              /\ UNCHANGED <<now, prevEnd, interrupts>>
  /\ UNCHANGED <<files, log, cycles, cycleStart, prevStart, armedAt,
                 nextExpiry, startFiles, prevAcquired>>

\* pixelstats_ = IPixelStats::tryGetService(); return if it is null (the
\* lookup does not block: the failed cycle is a short one).
TryGetService ==
  /\ pc = "logAll" /\ step = "tryGetService"
  /\ \E ok \in BOOLEAN :
       IF ok
         THEN /\ pixelstats_' = "service"
              /\ acquired' = "yes"
              /\ step' = "logBatteryChargeCycles"
              /\ UNCHANGED <<pc, now, prevEnd, interrupts>>
         ELSE /\ pixelstats_' = "null"
              /\ acquired' = "no"
              /\ LogAllReturns(ShortRun)
  /\ UNCHANGED <<files, log, cycles, cycleStart, prevStart, armedAt,
                 nextExpiry, startFiles, prevAcquired>>

\* A reader runs: its events are appended and its file changes made.
Reader(at, effect, then) ==
  /\ pc = "logAll" /\ step = at
  /\ log' = log \o effect.log
  /\ files' = effect.files
  /\ step' = then
  /\ UNCHANGED <<pc, pixelstats_, now, cycles, cycleStart, prevStart, prevEnd,
                 armedAt, nextExpiry, interrupts, startFiles, acquired,
                 prevAcquired>>

RunBatteryChargeCycles ==
  Reader("logBatteryChargeCycles", logBatteryChargeCycles(files), "logCodecFailed")

\* Mutant of RunCodecFailed: an unreadable codec file ends the cycle.
RunCodecFailedAborts ==
  Reader("logCodecFailed", logCodecFailed(files),
         IF ReadFileToString(files, kCodecPath).ok THEN SlowIoPaths[1] ELSE "clear")

RunCodecFailed ==
  Reader("logCodecFailed", logCodecFailed(files), SlowIoPaths[1])

\* Mutant of logSlowIO: the third call names the read counter again.
logSlowIOReadTwice ==
  \E k \in 1..4 :
    LET n == IF k = 3 THEN 1 ELSE k
    IN  Reader(SlowIoPaths[k],
               reportSlowIoFromFile(files, SlowIoPaths[n], IoOperation[k]),
               IF k < 4 THEN SlowIoPaths[k + 1] ELSE "logSpeakerImpedance")

\* Mutant of logSlowIO: the write counter is processed before the read counter.
logSlowIOWriteFirst ==
  \E k \in 1..4 :
    LET n == CASE k = 1 -> 2 [] k = 2 -> 1 [] OTHER -> k
    IN  Reader(SlowIoPaths[k],
               reportSlowIoFromFile(files, SlowIoPaths[n], IoOperation[n]),
               IF k < 4 THEN SlowIoPaths[k + 1] ELSE "logSpeakerImpedance")

\* logSlowIO: the four calls of reportSlowIoFromFile, in order.
logSlowIO ==
  \E k \in 1..4 :
    Reader(SlowIoPaths[k],
           reportSlowIoFromFile(files, SlowIoPaths[k], IoOperation[k]),
           IF k < 4 THEN SlowIoPaths[k + 1] ELSE "logSpeakerImpedance")

RunSpeakerImpedance ==
  /\ pc = "logAll" /\ step = "logSpeakerImpedance"
  /\ \E e \in logSpeakerImpedance(files) : Reader("logSpeakerImpedance", e, "clear")

\* Mutant of ClearService: logAll returns without pixelstats_.clear().
ClearServiceKeepsHandle ==
  /\ pc = "logAll" /\ step = "clear"
  /\ \E d \in {ShortRun, LongRun} : LogAllReturns(d)
  /\ UNCHANGED <<pixelstats_, files, log, cycles, cycleStart, prevStart, armedAt,
                 nextExpiry, startFiles, acquired, prevAcquired>>

\* pixelstats_.clear(); logAll returns.
ClearService ==
  /\ pc = "logAll" /\ step = "clear"
  /\ pixelstats_' = "null"
  /\ \E d \in {ShortRun, LongRun} : LogAllReturns(d)
  /\ UNCHANGED <<files, log, cycles, cycleStart, prevStart, armedAt,
                 nextExpiry, startFiles, acquired, prevAcquired>>

(***************************************************************************)
(* collect                                                                 *)
(***************************************************************************)
\* A call of logAll begins at the current time.
BeginLogAll(t) ==
  /\ pc' = "logAll"
  /\ step' = "tryGetService"
  /\ cycles' = cycles + 1
  /\ prevStart' = cycleStart
  /\ cycleStart' = t
  /\ log' = <<>>
  /\ startFiles' = files
  /\ acquired' = "pending"
  /\ prevAcquired' = acquired

\* timerfd_create(CLOCK_BOOTTIME, 0); collect returns if it fails.
TimerfdCreate ==
  /\ pc = "create"
  /\ \E ok \in BOOLEAN : pc' = IF ok THEN "sleep" ELSE "createFailed"
  /\ UNCHANGED <<step, pixelstats_, files, log, now, cycles, cycleStart,
                 prevStart, prevEnd, armedAt, nextExpiry, interrupts, startFiles, acquired,
                 prevAcquired>>

\* sleep(30), then the first logAll (line 163).  sleep returns when the 30
\* seconds have elapsed or, before that, when a signal handler has run; its
\* result is not looked at.
Sleep ==
  /\ pc = "sleep"
  /\ \E t \in {EarlyWake, kWarmupSeconds} :
       /\ now' = now + t
       /\ BeginLogAll(now + t)
  /\ UNCHANGED <<pixelstats_, files, prevEnd, armedAt, nextExpiry, interrupts>>

\* Mutant of TimerfdSettime: the result of timerfd_settime is not checked.
TimerfdSettimeUnchecked ==
  /\ pc = "settime"
  /\ \E ok \in BOOLEAN :
       IF ok
         THEN /\ pc' = "read"
              /\ armedAt' = now
              /\ nextExpiry' = now + kSecondsPerDay
         ELSE /\ pc' = "read"
              /\ UNCHANGED <<armedAt, nextExpiry>>
  /\ UNCHANGED <<step, pixelstats_, files, log, now, cycles, cycleStart,
                 prevStart, prevEnd, interrupts, startFiles, acquired,
                 prevAcquired>>

\* timerfd_settime(timerfd, 0, &period, NULL): first expiration one period
\* after the call, then one every period; collect returns if it fails.
TimerfdSettime ==
  /\ pc = "settime"
  /\ \E ok \in BOOLEAN :
       IF ok
         THEN /\ pc' = "read"
              /\ armedAt' = now
              /\ nextExpiry' = now + kSecondsPerDay
         ELSE /\ pc' = "settimeFailed"
              /\ UNCHANGED <<armedAt, nextExpiry>>
  /\ UNCHANGED <<step, pixelstats_, files, log, now, cycles, cycleStart,
                 prevStart, prevEnd, interrupts, startFiles, acquired,
                 prevAcquired>>

\* Number of expirations a read of the timer returns at time t.
Expirations(t) == (t - nextExpiry) \div kSecondsPerDay + 1

\* Mutant of ReadTimerfd: a read consumes one expiration only.
ReadTimerfdOneExpiration ==
  /\ pc = "read"
  /\ cycles < MaxCycles
  /\ LET t == IF now < nextExpiry THEN nextExpiry ELSE now
     IN  /\ now' = t
         /\ nextExpiry' = nextExpiry + kSecondsPerDay
         /\ BeginLogAll(t)
  /\ UNCHANGED <<pixelstats_, files, prevEnd, armedAt, interrupts>>

\* read(timerfd, buf, 8) returns the expirations since the last read, blocking
\* until the first one; logAll (line 189) follows.
ReadTimerfd ==
  /\ pc = "read"
  /\ cycles < MaxCycles
  /\ LET t == IF now < nextExpiry THEN nextExpiry ELSE now
     IN  /\ now' = t
         /\ nextExpiry' = nextExpiry + Expirations(t) * kSecondsPerDay
         /\ BeginLogAll(t)
  /\ UNCHANGED <<pixelstats_, files, prevEnd, armedAt, interrupts>>

\* Mutant of ReadInterrupted: EINTR is taken for an error of the timer.
ReadInterruptedFatal ==
  /\ pc = "read"
  /\ interrupts < MaxInterrupts
  /\ interrupts' = interrupts + 1
  /\ pc' = "readFailed"
  /\ UNCHANGED <<step, pixelstats_, files, log, now, cycles, cycleStart,
                 prevStart, prevEnd, armedAt, nextExpiry, startFiles, acquired,
                 prevAcquired>>

\* read fails with EINTR: the do-while reads again.
ReadInterrupted ==
  /\ pc = "read"
  /\ interrupts < MaxInterrupts
  /\ interrupts' = interrupts + 1
  /\ UNCHANGED <<pc, step, pixelstats_, files, log, now, cycles, cycleStart,
                 prevStart, prevEnd, armedAt, nextExpiry, startFiles, acquired,
                 prevAcquired>>

\* read fails with another error: collect returns.
ReadFailed ==
  /\ pc = "read"
  /\ pc' = "readFailed"
  /\ UNCHANGED <<step, pixelstats_, files, log, now, cycles, cycleStart,
                 prevStart, prevEnd, armedAt, nextExpiry, interrupts, startFiles, acquired,
                 prevAcquired>>

(***************************************************************************)
(* Initial files.  Every file starts with its nominal content or with one  *)
(* of its off-nominal states; at most MaxOffNominal files are off-nominal. *)
(***************************************************************************)
Nominal(path) ==
  CASE path = kCycleCountBinsPath -> File(TRUE, "open", <<"1", " ", "2", " ", "3", "\n">>)
    [] path = kCodecPath -> File(TRUE, "open", <<"0">>)
    [] path = kImpedancePath -> File(TRUE, "open", <<"4", ".", "5", ",", "5", ".", "2", "5">>)
    [] OTHER -> File(TRUE, "ok", <<"5">>)

OffNominal(path) ==
  CASE path = kCycleCountBinsPath ->
         {File(FALSE, "open", <<>>),
          File(TRUE, "open", <<"1", " ", "2", " ", "3", " ">>),
          File(TRUE, "open", <<" ", "1", " ", "2">>),
          File(TRUE, "open", <<"1", "\t", "2", "\n">>),
          File(TRUE, "open", <<"1", " ", "2", "\r", "\n">>)}
    [] path = kCodecPath ->
         {File(FALSE, "open", <<>>),
          File(TRUE, "open", <<"1">>),
          File(TRUE, "open", <<"0", "\n">>),
          File(TRUE, "open", <<"e", "r", "r">>)}
    [] path = kImpedancePath ->
         {File(FALSE, "open", <<>>),
          File(TRUE, "open", <<"4", ".", "5", " ", "5", ".", "2", "5">>),
          File(TRUE, "open", <<"4", ".", "5", ",", " ", "5", ".", "2", "5", "\n">>),
          File(TRUE, "open", <<"4", ".", "5">>),
          File(TRUE, "open", <<"0", ".", "2", "5", "1", ",", "0", ".", "2", "5", "3">>),
          File(TRUE, "open", <<"1", "e", "1", ",", "0", "x", "1", "p", "3">>),
          File(TRUE, "open", <<"3", "0", "0", "0", "0", "0", "0", ",", "1">>)}
    [] path = kSlowioReadCntPath ->
         {File(FALSE, "ok", <<>>),
          File(TRUE, "ok", <<"0">>),
          File(TRUE, "ok", <<"-", "3">>),
          File(TRUE, "ok", <<"a", "b", "c">>),
          File(TRUE, "ok", <<"5", "a", "b", "c">>),
          File(TRUE, "ok", <<"2", "1", "4", "7", "4", "8", "3", "6", "4", "8">>),
          File(TRUE, "open", <<"7", "\n">>),
          File(TRUE, "write", <<"7", "\n">>)}
    [] path = kSlowioWriteCntPath ->
         {File(FALSE, "ok", <<>>),
          File(TRUE, "ok", <<"a", "b", "c">>),
          File(TRUE, "ok",
               <<"9", "9", "9", "9", "9", "9", "9", "9", "9", "9", "9">>)}
    [] path = kSlowioUnmapCntPath ->
         {File(TRUE, "ok", <<"0">>),
          File(TRUE, "ok", <<"5", "a", "b", "c">>),
          File(TRUE, "ok", <<"\r", "5">>)}
    [] path = kSlowioSyncCntPath ->
         {File(TRUE, "ok", <<"-", "3">>),
          File(TRUE, "open", <<"7", "\n">>),
          Pinned(File(TRUE, "write", <<"7", "\n">>))}

\* The ways to put every file of D in one of its off-nominal states.
FaultChoices(D) ==
  {c \in [D -> UNION {OffNominal(p) : p \in D}] : \A p \in D : c[p] \in OffNominal(p)}

InitFiles ==
  UNION {{[p \in Paths |-> IF p \in D THEN c[p] ELSE Nominal(p)] : c \in FaultChoices(D)} :
           D \in {S \in SUBSET Paths : Cardinality(S) <= MaxOffNominal}}

Init ==
  /\ pc = "create"
  /\ step = "idle"
  /\ pixelstats_ = "null"
  /\ files \in InitFiles
  /\ log = <<>>
  /\ now = 0
  /\ cycles = 0
  /\ cycleStart = 0
  /\ prevStart = 0
  /\ prevEnd = 0
  /\ armedAt = -1
  /\ nextExpiry = 0
  /\ interrupts = 0
  /\ startFiles = files
  /\ acquired = "pending"
  /\ prevAcquired = "pending"

Next ==
  \/ TimerfdCreate
  \/ Sleep
  \/ TryGetService
  \/ RunBatteryChargeCycles
  \/ RunCodecFailed
  \/ logSlowIO
  \/ RunSpeakerImpedance
  \/ ClearService
  \/ TimerfdSettime
  \/ ReadTimerfd
  \/ ReadInterrupted
  \/ ReadFailed

Spec == Init /\ [][Next]_vars

(***************************************************************************)
(* Helpers of the properties.                                              *)
(***************************************************************************)
\* The events of the current (or last) cycle that concern one source file.
EventsOf(path) == SelectSeq(log, LAMBDA e : e.src = path)

\* The calls on the IPixelStats handle made for one source file.
ReportsOf(path) == SelectSeq(log, LAMBDA e : e.src = path /\ e.ev \in ReportKinds)

\* The writes (successful or not) attempted on one source file.
WritesOf(path) == SelectSeq(log, LAMBDA e : e.src = path /\ e.ev \in WriteKinds)

\* The reader of this source has run in the current (or last) cycle.
Visited(path) == \E i \in 1..Len(log) : log[i].src = path /\ log[i].ev \in ReadKinds

\* ... and could read its file.
ReadOk(path) == \E i \in 1..Len(log) : log[i].src = path /\ log[i].ev = "read"

\* The text the cycle's reader of this source gets from its file.
Sample(path) == startFiles[path].data

\* logAll has returned from a cycle.
CycleOver == cycles >= 1 /\ step = "idle"

\* Every reader has returned and logAll is about to release the handle: the
\* events of the cycle are complete.
ReadersDone == pc = "logAll" /\ step = "clear"

\* The sources in the order logAll names them.
SourceOrder ==
  <<kCycleCountBinsPath, kCodecPath, kSlowioReadCntPath, kSlowioWriteCntPath,
    kSlowioUnmapCntPath, kSlowioSyncCntPath, kImpedancePath>>
SourceRank == [p \in Paths |-> CHOOSE i \in 1..7 : SourceOrder[i] = p]
OrderOf(path) == SourceRank[path]

(***************************************************************************)
(* C1: in every cycle and for each slow-I/O counter file, "0" is written   *)
(* to the file only if the file was read and its content parsed as an      *)
(* integer in that cycle; an unreadable file or non-numeric content yields *)
(* no report and no reset write.                                           *)
(***************************************************************************)
C1_ClearOnlyAfterParse ==
  \A k \in 1..4 :
    LET path == SlowIoPaths[k]
    IN  /\ WritesOf(path) # <<>> =>
             ReadOk(path) /\ ScanInt(Sample(path)).n = 1
        /\ (Visited(path) /\ (~ReadOk(path) \/ ScanInt(Sample(path)).n # 1)) =>
             ReportsOf(path) = <<>> /\ WritesOf(path) = <<>>

(***************************************************************************)
(* C2: a cycle whose tryGetService fails makes no report, reads no file,   *)
(* writes no file, and is over right after the failed acquisition.         *)
(***************************************************************************)
C2_NoSinkNoWork ==
  acquired = "no" =>
    /\ log = <<>>
    /\ files = startFiles
    /\ step = "idle" /\ pc # "logAll"
    /\ pixelstats_ = "null"

C2_Witness ==
  /\ acquired = "no" /\ cycles = 2
  /\ \E p \in Paths : startFiles[p].readable

(***************************************************************************)
(* C3: in a cycle that acquired the sink, every one of the seven readers   *)
(* is invoked whatever fails in the others, and what each source reports   *)
(* is what its reader reports from its own file alone, with every other    *)
(* file in its nominal state.                                              *)
(***************************************************************************)
\* The files with this file at path and every other file in its nominal
\* state.
AloneWith(path, file) == [p \in Paths |-> IF p = path THEN file ELSE Nominal(p)]
Alone(path) == AloneWith(path, startFiles[path])

\* The states the speaker file, which no reader writes, can be in.
ImpedanceFiles == {Nominal(kImpedancePath)} \cup OffNominal(kImpedancePath)

\* For each of them, the event sequences logSpeakerImpedance can produce
\* from it alone.
SpeakerEventsAlone ==
  [f \in ImpedanceFiles |->
     {e.log : e \in logSpeakerImpedance(AloneWith(kImpedancePath, f))}]

\* The event sequences the reader of path can produce from its file alone.
ExpectedAlone(path) ==
  CASE path = kCycleCountBinsPath -> {logBatteryChargeCycles(Alone(path)).log}
    [] path = kCodecPath -> {logCodecFailed(Alone(path)).log}
    [] path = kImpedancePath -> SpeakerEventsAlone[startFiles[path]]
    [] OTHER ->
         {reportSlowIoFromFile(Alone(path), path, IoOperation[OrderOf(path) - 2]).log}

C3_FailuresIsolated ==
  /\ (CycleOver /\ acquired = "yes") => \A p \in Paths : Visited(p)
  /\ ReadersDone => \A p \in Paths : Visited(p) /\ EventsOf(p) \in ExpectedAlone(p)

\* The first source is unreadable and the six others are still read and
\* reported.
C3_Witness ==
  /\ CycleOver /\ acquired = "yes"
  /\ \E i \in 1..Len(log) : log[i].ev = "readFailed" /\ log[i].src = kCycleCountBinsPath
  /\ \A k \in 1..4 : Len(ReportsOf(SlowIoPaths[k])) = 1
  /\ Len(ReportsOf(kImpedancePath)) = 2

(***************************************************************************)
(* C4: for each slow-I/O counter file whose content parses as an integer   *)
(* n (the decimal integer its text starts with): if n > 0 exactly one      *)
(* reportSlowIo is made, with count n and the operation of that file, and  *)
(* the write of "0" follows it; if n <= 0 no report is made and the write  *)
(* of "0" is still attempted.                                              *)
(***************************************************************************)
OperationOf(path) ==
  CASE path = kSlowioReadCntPath -> "READ"
    [] path = kSlowioWriteCntPath -> "WRITE"
    [] path = kSlowioUnmapCntPath -> "UNMAP"
    [] path = kSlowioSyncCntPath -> "SYNC"

\* The decimal integer that s starts with, after white space: its sign and
\* its magnitude, a number of any size (ok is FALSE if there is none).
LeadingInteger(s) ==
  LET i == SkipSpace(s, 1)
      signed == i <= Len(s) /\ s[i] \in {"+", "-"}
      d == IF signed THEN i + 1 ELSE i
      e == DigitsEnd(s, d)
  IN  [ok |-> e > d,
       neg |-> signed /\ s[i] = "-",
       mag |-> DigitsValue(s, d, e, 10)]

C4_SlowIoReportThenClear ==
  \A k \in 1..4 :
    LET path == SlowIoPaths[k]
        n == LeadingInteger(Sample(path))
        es == EventsOf(path)
    IN  (ReadOk(path) /\ n.ok) =>
          /\ es[1].ev = "read"
          /\ es[Len(es)].ev \in WriteKinds /\ es[Len(es)].val = <<"0">>
          /\ IF ~n.neg /\ n.mag # <<>>
               THEN /\ Len(es) = 3
                    /\ es[2].ev = "reportSlowIo"
                    /\ es[2].val[1] = OperationOf(path)
                    /\ es[2].val[2] > 0
                    /\ BigOfInt(es[2].val[2]) = n.mag
               ELSE Len(es) = 2

(***************************************************************************)
(* C5: for every well-formed histogram (integers separated by white space, *)
(* possibly with leading or trailing white space) the string reported has  *)
(* every run of white space replaced by one comma and no leading or        *)
(* trailing separator: "1 2 3 " is reported as "1,2,3".                    *)
(***************************************************************************)
WellFormedHistogram(s) ==
  /\ \A i \in 1..Len(s) : IsDigit(s[i]) \/ IsSpace(s[i])
  /\ \E i \in 1..Len(s) : IsDigit(s[i])

\* s[1..j] with every run of white space turned into one comma.
RECURSIVE CollapseRuns(_, _)
CollapseRuns(s, j) ==
  IF j = 0 THEN <<>>
  ELSE IF ~IsSpace(s[j]) THEN Append(CollapseRuns(s, j - 1), s[j])
  ELSE IF j > 1 /\ IsSpace(s[j - 1]) THEN CollapseRuns(s, j - 1)
  ELSE Append(CollapseRuns(s, j - 1), ",")

Normalized(s) == CollapseRuns(Trim(s), Len(Trim(s)))

C5_HistogramNormalized ==
  \A i \in 1..Len(log) :
    (log[i].ev = "reportChargeCycles" /\ WellFormedHistogram(Sample(kCycleCountBinsPath)))
      => log[i].val = Normalized(Sample(kCycleCountBinsPath))

(***************************************************************************)
(* C6: when the codec file is readable, content exactly "0" yields no      *)
(* report and any other content yields exactly one reportHardwareFailed    *)
(* (CODEC, 0, COMPLETE); the codec file is never written.                  *)
(***************************************************************************)
C6_CodecFlag ==
  /\ ReadOk(kCodecPath) =>
       ReportsOf(kCodecPath) =
         IF Sample(kCodecPath) = <<"0">>
           THEN <<>>
           ELSE <<Ev("reportHardwareFailed", kCodecPath, <<"CODEC", 0, "COMPLETE">>)>>
  /\ WritesOf(kCodecPath) = <<>>
  /\ files[kCodecPath] = startFiles[kCodecPath]

\* The codec file holds "0" followed by a newline, which is not "0".
C6_Witness ==
  /\ ReadOk(kCodecPath)
  /\ Sample(kCodecPath) = <<"0", "\n">>
  /\ Len(ReportsOf(kCodecPath)) = 1

(***************************************************************************)
(* C7: two values separated by a comma yield exactly two                   *)
(* reportSpeakerImpedance calls, channel 0 with the first value times 1000 *)
(* and then channel 1 with the second value times 1000 ("4.5,5.25" yields  *)
(* 4500 and 5250); an input of which fewer than two values parse ("4.5"    *)
(* alone) yields none, never channel 0 alone.  The product is stated for   *)
(* the values of which it is an integer: plain decimal numbers with at     *)
(* most three digits after the point.                                      *)
(***************************************************************************)
\* s[i..j-1] is a plain decimal number: an optional sign, digits and, after
\* a '.', at most three more digits.
PlainDecimal(s, i, j) ==
  LET d == IF i < j /\ s[i] \in {"+", "-"} THEN i + 1 ELSE i
      c == DigitsEnd(s, d)
      f == IF c < j /\ s[c] = "." THEN c + 1 ELSE c
      g == DigitsEnd(s, f)
  IN  c > d /\ g = j /\ g - f <= 3

\* 1000 times the plain decimal number s[i..j-1]: its sign and its magnitude,
\* an integer.
Times1000(s, i, j) ==
  LET d == IF s[i] \in {"+", "-"} THEN i + 1 ELSE i
      c == DigitsEnd(s, d)
      f == IF c < j /\ s[c] = "." THEN c + 1 ELSE c
      digits == SubSeq(s, d, c - 1) \o SubSeq(s, f, j - 1)
                  \o [k \in 1..(3 - (j - f)) |-> "0"]
  IN  [neg |-> s[i] = "-", mag |-> DigitsValue(digits, 1, Len(digits) + 1, 10)]

\* The report e is the call for this channel with this number.
ReportsValue(e, channel, t) ==
  /\ e.ev = "reportSpeakerImpedance"
  /\ e.val[1] = channel
  /\ e.val[2] > Int32Min
  /\ IF t.neg /\ t.mag # <<>>
       THEN e.val[2] < 0 /\ BigOfInt(0 - e.val[2]) = t.mag
       ELSE e.val[2] >= 0 /\ BigOfInt(e.val[2]) = t.mag

\* Index of the first comma of s.
FirstComma(s) ==
  CHOOSE k \in 1..Len(s) : s[k] = "," /\ \A m \in 1..(k - 1) : s[m] # ","

\* s is two plain decimal numbers with a comma between them.
TwoPlainValues(s) ==
  /\ \E k \in 1..Len(s) : s[k] = ","
  /\ PlainDecimal(s, 1, FirstComma(s))
  /\ PlainDecimal(s, FirstComma(s) + 1, Len(s) + 1)

C7_ImpedancePair ==
  ReadOk(kImpedancePath) =>
    LET rs == ReportsOf(kImpedancePath)
        s == Sample(kImpedancePath)
    IN  /\ Len(rs) \in {0, 2}
        /\ TwoPlainValues(s) =>
             /\ Len(rs) = 2
             /\ ReportsValue(rs[1], 0, Times1000(s, 1, FirstComma(s)))
             /\ ReportsValue(rs[2], 1, Times1000(s, FirstComma(s) + 1, Len(s) + 1))
        /\ s = <<"4", ".", "5", ",", "5", ".", "2", "5">> =>
             rs = <<Ev("reportSpeakerImpedance", kImpedancePath, <<0, 4500>>),
                    Ev("reportSpeakerImpedance", kImpedancePath, <<1, 5250>>)>>
        /\ s = <<"4", ".", "5">> => rs = <<>>
        /\ ScanImpedance(s).n < 2 => rs = <<>>

(***************************************************************************)
(* C8: the speaker-impedance source accepts two floating values separated  *)
(* by either a comma or a space: for both "a,b" and "a b" it makes the two *)
(* channel reports (channel 0 = a*1000, channel 1 = b*1000).               *)
(***************************************************************************)
\* l and r are what "%g" converts at the start of s and after the character
\* that follows: s is a number, the character sep, and a number.
Separated(s, sep, l, r) ==
  /\ l.n = 1
  /\ l.next <= Len(s) /\ s[l.next] = sep
  /\ l.next < Len(s) /\ ~IsSpace(s[l.next + 1])
  /\ r.n = 1

TwoValues(s, sep) ==
  Separated(s, sep, ScanFloat(s, 1), ScanFloat(s, ScanFloat(s, 1).next + 1))

\* What "%g" converts at the start of each text the speaker file can hold
\* (l) and after the character that follows that number (r).
TwoScans(s, l) == [l |-> l, r |-> ScanFloat(s, l.next + 1)]
ScannedValues == [s \in {f.data : f \in ImpedanceFiles} |-> TwoScans(s, ScanFloat(s, 1))]

\* The reports of both channels for the two numbers l and r, with the
\* values the code passes for them.
BothChannels(l, r) == ImpedanceReports([left |-> l.val, right |-> r.val])

\* The claim as stated: comma or space.
C8_CommaOrSpace ==
  (ReadersDone /\ ReadOk(kImpedancePath)) =>
    LET s == Sample(kImpedancePath)
        l == ScannedValues[s].l
        r == ScannedValues[s].r
    IN  \A sep \in {",", " "} :
          Separated(s, sep, l, r) => ReportsOf(kImpedancePath) \in BothChannels(l, r)

\* As amended: a comma separates the two values, which are reported for
\* channel 0 and then channel 1 ("4.5,5.25" as 4500 and 5250); with a space
\* in its place the second value is not parsed and nothing is reported.
C8_CommaOnly ==
  (ReadersDone /\ ReadOk(kImpedancePath)) =>
    LET s == Sample(kImpedancePath)
        l == ScannedValues[s].l
        r == ScannedValues[s].r
    IN  /\ Separated(s, ",", l, r) =>
             ReportsOf(kImpedancePath) \in BothChannels(l, r)
        /\ s = <<"4", ".", "5", ",", "5", ".", "2", "5">> =>
             ReportsOf(kImpedancePath) =
               <<Ev("reportSpeakerImpedance", kImpedancePath, <<0, 4500>>),
                 Ev("reportSpeakerImpedance", kImpedancePath, <<1, 5250>>)>>
        /\ Separated(s, " ", l, r) => ReportsOf(kImpedancePath) = <<>>

\* A cycle has read "4.5 5.25" and reported nothing for the speakers.
C8_Witness ==
  /\ ReadersDone /\ ReadOk(kImpedancePath)
  /\ Sample(kImpedancePath) = <<"4", ".", "5", " ", "5", ".", "2", "5">>
  /\ TwoValues(Sample(kImpedancePath), " ")
  /\ ReportsOf(kImpedancePath) = <<>>

(***************************************************************************)
(* C9: in a cycle that acquired the sink the sources are processed in the  *)
(* order charge cycles, codec, slow-I/O read, write, unmap, sync, speaker  *)
(* impedance, and the read, report and clear steps of one source are all   *)
(* done before any step of the next: the events of a cycle appear in that  *)
(* source order, and read before report before write within a source.      *)
(***************************************************************************)
PhaseRank(e) ==
  IF e.ev \in ReadKinds THEN 1 ELSE IF e.ev \in ReportKinds THEN 2 ELSE 3

C9_FixedSourceOrder ==
  /\ \A i, j \in 1..Len(log) :
       i < j =>
         /\ OrderOf(log[i].src) <= OrderOf(log[j].src)
         /\ log[i].src = log[j].src => PhaseRank(log[i]) <= PhaseRank(log[j])
  /\ (CycleOver /\ acquired = "yes") =>
       \A n \in 1..7 : \E i \in 1..Len(log) : log[i].src = SourceOrder[n]
  /\ \A i \in 1..Len(log) : i > 1 /\ log[i].ev \in ReadKinds =>
       OrderOf(log[i].src) = OrderOf(log[i - 1].src) + 1

\* A finished cycle in which every slow-I/O counter was reported and cleared
\* and both speakers were reported.
C9_Witness ==
  /\ CycleOver /\ acquired = "yes"
  /\ \A k \in 1..4 : Len(ReportsOf(SlowIoPaths[k])) = 1 /\ Len(WritesOf(SlowIoPaths[k])) = 1
  /\ Len(ReportsOf(kCycleCountBinsPath)) = 1
  /\ Len(ReportsOf(kImpedancePath)) = 2

(***************************************************************************)
(* C10: the first cycle starts no earlier than 30 s after start, and every *)
(* later cycle starts exactly one 24 h period after the start of the       *)
(* previous cycle, however long the previous cycle took (the interval      *)
(* between the first and the second cycle included).                       *)
(***************************************************************************)
CycleStarts == pc = "logAll" /\ step = "tryGetService"

\* The claim as stated.
C10_FixedPeriodFromPreviousStart ==
  CycleStarts =>
    /\ cycles = 1 => cycleStart >= kWarmupSeconds
    /\ cycles >= 2 => cycleStart = prevStart + kSecondsPerDay

(***************************************************************************)
(* C11: a cycle that fails because the sink is unavailable is not fatal:   *)
(* logAll returns to the loop of collect, which arms or reads the timer as *)
(* after any cycle, and the cycle the next tick starts begins afresh, with *)
(* a new call of tryGetService, whether the failed cycle was the first one *)
(* or a later one.                                                         *)
(***************************************************************************)
\* collect has returned.
Exited == pc \notin {"create", "sleep", "logAll", "settime", "read"}

C11_SinkFailureNotFatal ==
  /\ [][(acquired # "no" /\ acquired' = "no") =>
          (pc' = AfterLogAll /\ pc' \in {"settime", "read"} /\ step' = "idle")]_vars
  /\ [](acquired = "no" /\ pc = "settime" => ENABLED TimerfdSettime)
  /\ [](acquired = "no" /\ pc = "read" /\ cycles < MaxCycles => ENABLED ReadTimerfd)
  /\ [][cycles' = cycles + 1 =>
          /\ pc' = "logAll" /\ step' = "tryGetService"
          /\ acquired' = "pending" /\ prevAcquired' = acquired
          /\ pixelstats_' = "null" /\ log' = <<>>]_vars
  /\ [](acquired = "pending" /\ pc = "logAll" => ENABLED TryGetService)

\* The second cycle failed to acquire the sink and the third has acquired it.
C11_Witness ==
  /\ cycles = 3
  /\ prevAcquired = "no"
  /\ acquired = "yes"
  /\ pixelstats_ = "service"

(***************************************************************************)
(* C12: failure to create or to arm the timer is fatal: collect returns    *)
(* and no cycle is started afterwards; when timerfd_create fails no cycle  *)
(* runs at all and no file is read; without an armed timer no cycle but    *)
(* the first one runs.                                                     *)
(***************************************************************************)
C12_TimerFailureFatal ==
  /\ [](pc = "createFailed" =>
          cycles = 0 /\ log = <<>> /\ files = startFiles /\ acquired = "pending")
  /\ [](pc = "settimeFailed" => cycles = 1 /\ step = "idle" /\ armedAt < 0)
  /\ [](armedAt < 0 => cycles <= 1 /\ pc # "read")
  /\ [][(pc \in {"createFailed", "settimeFailed"}) =>
          (pc' = pc /\ cycles' = cycles /\ log' = log /\ files' = files)]_vars

\* timerfd_settime has failed after a first cycle that reported something.
C12_Witness ==
  /\ pc = "settimeFailed"
  /\ cycles = 1
  /\ acquired = "yes" /\ log # <<>>

(***************************************************************************)
(* C13: a read of the timer that fails with EINTR is retried: it starts no *)
(* cycle and does not end the loop, and the next successful read still     *)
(* starts exactly one cycle; only another failure of the read ends the     *)
(* loop.                                                                   *)
(***************************************************************************)
C13_InterruptedWaitRetried ==
  /\ [][interrupts' = interrupts + 1 =>
          /\ pc = "read" /\ pc' = "read"
          /\ cycles' = cycles /\ log' = log /\ files' = files
          /\ now' = now /\ nextExpiry' = nextExpiry]_vars
  /\ [](pc = "read" /\ interrupts > 0 /\ cycles < MaxCycles => ENABLED ReadTimerfd)
  /\ [][(pc = "read" /\ pc' = "logAll") =>
          (cycles' = cycles + 1 /\ step' = "tryGetService")]_vars
  /\ [][(pc = "read" /\ pc' \notin {"read", "logAll"}) =>
          (pc' = "readFailed" /\ interrupts' = interrupts /\ cycles' = cycles)]_vars

\* A cycle started by the read that followed an interrupted read.
C13_Witness ==
  /\ pc = "logAll"
  /\ interrupts >= 1
  /\ cycles = 2
  /\ step = "tryGetService"

(***************************************************************************)
(* C14: no report is made from a partially parsed sample: a slow-I/O       *)
(* report is made only when the whole text read in that cycle is a base-10 *)
(* integer; "5abc", of which only a prefix is numeric, yields no report.   *)
(***************************************************************************)
\* s is a decimal integer, with an optional sign and white space around it.
WholeInteger(s) ==
  LET t == Trim(s)
      d == IF Len(t) >= 1 /\ t[1] \in {"+", "-"} THEN 2 ELSE 1
  IN  /\ d <= Len(t)
      /\ \A i \in d..Len(t) : IsDigit(t[i])

C14_NoPartialParse ==
  \A k \in 1..4 :
    ReportsOf(SlowIoPaths[k]) # <<>> => WholeInteger(Sample(SlowIoPaths[k]))

(***************************************************************************)
(* C15: the sink handle is acquired at most once per cycle and, when       *)
(* acquired, released at the end of that cycle whatever the sources did;   *)
(* the handle is empty whenever the loop waits for a tick and no handle is *)
(* carried from one cycle to the next.                                     *)
(***************************************************************************)
C15_HandlePerCycle ==
  /\ [](pc # "logAll" => pixelstats_ = "null")
  /\ [](pc = "logAll" /\ step # "tryGetService" =>
          pixelstats_ = "service" /\ acquired = "yes")
  /\ [](pc = "logAll" /\ step = "tryGetService" =>
          pixelstats_ = "null" /\ acquired = "pending")
  /\ [][(acquired # "pending") =>
          \/ acquired' = acquired /\ cycles' = cycles
          \/ acquired' = "pending" /\ cycles' = cycles + 1]_vars
  /\ [][(pixelstats_ = "service" /\ pixelstats_' # "service") =>
          (step = "clear" /\ cycles' = cycles /\ pc' # "logAll")]_vars

\* The loop waits for a tick after a cycle that acquired the sink and in
\* which a source failed.
C15_Witness ==
  /\ pc = "read"
  /\ acquired = "yes"
  /\ pixelstats_ = "null"
  /\ \E i \in 1..Len(log) : log[i].ev \in {"readFailed", "writeFailed"}

(***************************************************************************)
(* C16: when the write of "0" to a slow-I/O counter file fails, the report *)
(* already made for that source stands (made once, not repeated), the      *)
(* write is not tried again in this cycle, and the next sources are        *)
(* processed.                                                              *)
(***************************************************************************)
WriteFailed(path) ==
  \E i \in 1..Len(log) : log[i].src = path /\ log[i].ev = "writeFailed"

C16_FailedClearKeepsReport ==
  \A k \in 1..4 :
    LET path == SlowIoPaths[k]
        p == ScanInt(Sample(path))
    IN  WriteFailed(path) =>
          /\ Len(WritesOf(path)) = 1
          /\ ReportsOf(path) =
               IF p.n = 1 /\ p.val > 0
                 THEN <<Ev("reportSlowIo", path, <<OperationOf(path), p.val>>)>>
                 ELSE <<>>
          /\ files[path].data \in {startFiles[path].data, <<>>}
          /\ step # path
          /\ CycleOver => \A n \in (k + 3)..7 : Visited(SourceOrder[n])

\* The read counter held 7, was reported, could not be cleared, and the
\* speakers were still reported.
C16_Witness ==
  /\ CycleOver
  /\ WriteFailed(kSlowioReadCntPath)
  /\ ReportsOf(kSlowioReadCntPath) =
       <<Ev("reportSlowIo", kSlowioReadCntPath, <<"READ", 7>>)>>
  /\ Len(ReportsOf(kSlowioSyncCntPath)) = 1
  /\ Len(ReportsOf(kImpedancePath)) = 2

(***************************************************************************)
(* C17: only the four slow-I/O counter files are written, and only "0" is  *)
(* written: the charge-cycle, codec and impedance files are left as they   *)
(* were by every cycle, and each counter file is written at most once per  *)
(* cycle.                                                                  *)
(***************************************************************************)
SlowIoFiles == {SlowIoPaths[k] : k \in 1..4}

C17_WritesOnlyZeroToCounters ==
  /\ \A i \in 1..Len(log) :
       log[i].ev \in WriteKinds =>
         log[i].src \in SlowIoFiles /\ log[i].val = <<"0">>
  /\ \A p \in Paths \ SlowIoFiles : files[p] = startFiles[p]
  /\ \A p \in SlowIoFiles :
       /\ Len(WritesOf(p)) <= 1
       /\ files[p].data \in {startFiles[p].data, <<"0">>, <<>>}
       /\ files[p] # startFiles[p] => WritesOf(p) # <<>>
       /\ (\E i \in 1..Len(log) : log[i].src = p /\ log[i].ev = "write") =>
            files[p].data = <<"0">>

\* A finished cycle has cleared all four counters.
C17_Witness ==
  /\ CycleOver
  /\ \A p \in SlowIoFiles :
       /\ startFiles[p].data # <<"0">>
       /\ files[p].data = <<"0">>
       /\ Len(WritesOf(p)) = 1
  /\ Len(ReportsOf(kCycleCountBinsPath)) = 1

(***************************************************************************)
(* C18: every report call is made while the sink handle is held, between   *)
(* the successful tryGetService and the clear of the same cycle; no report *)
(* is made on an empty handle.                                             *)
(***************************************************************************)
C18_ReportsOnHeldHandle ==
  /\ [][(\E i \in (Len(log) + 1)..Len(log') : log'[i].ev \in ReportKinds) =>
          /\ pixelstats_ = "service" /\ pixelstats_' = "service"
          /\ pc = "logAll" /\ acquired = "yes"]_vars
  /\ []((\E i \in 1..Len(log) : log[i].ev \in ReportKinds) => acquired = "yes")

\* A report has just been made and the handle is held.
C18_Witness ==
  /\ pc = "logAll"
  /\ pixelstats_ = "service"
  /\ Len(log) >= 1
  /\ log[Len(log)].ev \in ReportKinds

(***************************************************************************)
(* C19: each source file is read at most once per cycle, and a cycle makes *)
(* at most one charge-cycle report, at most one hardware-failure report,   *)
(* at most one slow-I/O report per operation, and none or exactly two      *)
(* speaker-impedance reports: at most 8 report calls.                      *)
(***************************************************************************)
ReadsOf(path) == SelectSeq(log, LAMBDA e : e.src = path /\ e.ev \in ReadKinds)
AllReports == SelectSeq(log, LAMBDA e : e.ev \in ReportKinds)
ReportsOfKind(kind) == SelectSeq(log, LAMBDA e : e.ev = kind)

C19_BoundedReports ==
  /\ \A p \in Paths : Len(ReadsOf(p)) <= 1
  /\ Len(ReportsOfKind("reportChargeCycles")) <= 1
  /\ Len(ReportsOfKind("reportHardwareFailed")) <= 1
  /\ \A op \in {"READ", "WRITE", "UNMAP", "SYNC"} :
       Len(SelectSeq(log, LAMBDA e : e.ev = "reportSlowIo" /\ e.val[1] = op)) <= 1
  /\ Len(ReportsOfKind("reportSpeakerImpedance")) \in {0, 2}
  /\ Len(AllReports) <= 8

\* A finished cycle that made all 8 report calls.
C19_Witness ==
  /\ CycleOver
  /\ Len(AllReports) = 8
  /\ \A p \in Paths : Len(ReadsOf(p)) = 1

(***************************************************************************)
(* C20: cycles never overlap and each successful read of the timer starts  *)
(* exactly one cycle: when a cycle overruns one or more periods, the       *)
(* expirations that accumulated are consumed by one read and start one     *)
(* cycle, not one cycle each.                                              *)
(***************************************************************************)
C20_OneCyclePerWait ==
  /\ [][cycles' # cycles =>
          /\ cycles' = cycles + 1
          /\ pc \in {"sleep", "read"} /\ step = "idle" /\ pixelstats_ = "null"]_vars
  /\ [][(pc = "read" /\ pc' = "logAll") =>
          /\ cycles' = cycles + 1
          /\ now' >= nextExpiry
          /\ nextExpiry' > now'
          /\ nextExpiry' - kSecondsPerDay <= now']_vars
  /\ [](pc = "logAll" /\ armedAt >= 0 => nextExpiry > cycleStart)

\* The second cycle overran two periods; the third cycle started as soon as
\* it returned, and the next expiration is the third after the second
\* cycle's own.
C20_Witness ==
  /\ CycleStarts /\ cycles = 3
  /\ prevEnd >= prevStart + 2 * kSecondsPerDay
  /\ cycleStart = prevEnd
  /\ nextExpiry = prevStart + 3 * kSecondsPerDay

====
